---- MODULE Spec2Model ----
(***************************************************************************)
(* DeepXeno: the training entry point (code/train.py: main, train_model)   *)
(* and the evaluation entry point (code/test.py: main, calculate_roc_auc,  *)
(* calculate_pr_auc, test_model) as state machines.                        *)
(*                                                                         *)
(* Floating-point losses are the finite values 1..MaxLoss plus +inf and    *)
(* NaN, compared as Python compares floats.  Model parameters are a        *)
(* version: where they came from and how many optimizer steps they have    *)
(* taken.  Paths are sequences of components; the empty sequence is the    *)
(* empty string ''.                                                        *)
(***************************************************************************)
EXTENDS Integers, Sequences, FiniteSets, TLC

VARIABLES
    pc,                 \* position of the training process
    config,             \* the configuration mapping / the arguments of the run
    model_path,         \* train_model's model_path argument
    fs,                 \* directories that exist
    params,             \* the model's parameters
    mode,               \* "train" | "eval": model.train() / model.eval()
    looked_up,          \* os.path.exists was asked about the transfer checkpoint
    loaded,             \* model.load_state_dict was called
    message,            \* what main printed about the transfer checkpoint
    best_loss, epochs_no_improve, early_stop,
    epoch,              \* the loop variable of train_model (0-based)
    batch_i,            \* batches consumed in the current phase
    best_pt,            \* contents of <model_path>-best.pt
    numbered,           \* the n with a <model_path>-epoch_<n>.pt
    log_lines,          \* lines logging.info wrote
    err,                \* the uncaught exception that ended the run
    last,               \* what the last finished epoch saw and did
    executed,           \* history: epochs whose body was entered
    min_seen,           \* history: least validation loss observed
    min_params,         \* history: parameters at the end of the first epoch attaining it
    last_improve,       \* history: 1-based number of the last improving epoch
    writes,             \* history: the kinds of snapshot write attempted, and whether the directory was there
    tpc,                \* position of the evaluation process
    samples,            \* the test data provider's sample list
    tconfig,            \* Test section of the configuration
    calls,              \* the calculate_* calls main still has to make
    dp,                 \* samples of the provider of the current call
    y,                  \* label vector of the current call
    consumed,           \* samples the loader has yielded in the current call
    all_preds,          \* test_model's list of per-batch predictions
    y_pred,             \* test_model's return value
    plotted,            \* curves drawn
    saved,              \* figures written under plot_path
    terr                \* the uncaught exception that ended the evaluation

trainVars == <<pc, config, model_path, fs, params, mode, looked_up, loaded, message,
               best_loss, epochs_no_improve, early_stop, epoch, batch_i, best_pt,
               numbered, log_lines, err, last, executed, min_seen, min_params,
               last_improve, writes>>
testVars == <<tpc, samples, tconfig, calls, dp, y, consumed, all_preds, y_pred, plotted,
              saved, terr>>
vars == <<trainVars, testVars>>

-----------------------------------------------------------------------------
(* Bounds *)
MaxEpochs == 8
MaxPatience == 2
MaxBatches == 2
MaxLoss == 3
MaxSamples == 3
MaxBatchSize == 3
MaxMainEpochs == 2

(* Program constants *)
DemoPatience == 100
DemoEpochs == 50
SnapshotFrom == 30
SnapshotEvery == 5

-----------------------------------------------------------------------------
(* Python floats *)
Fin(n) == <<"fin", n>>
Inf == <<"inf", 0>>
NaN == <<"nan", 0>>
NoLoss == <<"none", 0>>
Losses == {Fin(n) : n \in 1..MaxLoss} \cup {Inf, NaN}

\* a <= b on floats, as a plausible slip for a < b
FloatLe(a, b) ==
    /\ a[1] # "nan" /\ b[1] # "nan"
    /\ \/ b[1] = "inf"
       \/ a[1] = "fin" /\ b[1] = "fin" /\ a[2] <= b[2]

\* a < b on floats: false when either is NaN, nothing is below itself
FloatLt(a, b) ==
    /\ a[1] # "nan" /\ b[1] # "nan"
    /\ a[1] = "fin"
    /\ \/ b[1] = "inf"
       \/ b[1] = "fin" /\ a[2] < b[2]

(* Model parameters *)
Fresh == [base |-> "fresh", steps |-> 0]
FromCheckpoint == [base |-> "checkpoint", steps |-> 0]
NoFile == [base |-> "none", steps |-> 0]
Step(p) == [p EXCEPT !.steps = @ + 1]

(* Paths *)
Front(s) == SubSeq(s, 1, Len(s) - 1)
Join(a, b) == a \o b
Dirname(p) == Front(p)
Prefixes(d) == {SubSeq(d, 1, k) : k \in 1..Len(d)}
\* os.path.exists: '' names nothing
PathExists(d, dirs) == d # <<>> /\ d \in dirs
\* a file can be created in d: '' is the working directory
Writable(d, dirs) == d = <<>> \/ d \in dirs
\* os.makedirs raises on '' and, without exist_ok, on a directory that exists
MakedirsRaises(d, dirs, exist_ok) == d = <<>> \/ (d \in dirs /\ ~exist_ok)

NoEpoch == [n |-> 0, loss |-> NoLoss]

-----------------------------------------------------------------------------
(* train.py: main *)

TransferEnabledByDefault(c) == c.transfer # "false"
\* line 178: Train.get("transfer", False)
TransferEnabled(c) == c.transfer = "true"

\* lines 177-194: the transfer-learning load
TransferLoad ==
    /\ pc = "main"
    /\ IF TransferEnabled(config)
       THEN /\ looked_up' = TRUE
            /\ IF config.ckpt_exists
               THEN /\ params' = FromCheckpoint
                    /\ loaded' = TRUE
                    /\ message' = "loaded"
               ELSE /\ message' = "scratch"
                    /\ UNCHANGED <<params, loaded>>
       ELSE UNCHANGED <<looked_up, params, loaded, message>>
    /\ pc' = "makedirs"
    /\ UNCHANGED <<config, model_path, fs, mode, best_loss, epochs_no_improve,
                   early_stop, epoch, batch_i, best_pt, numbered, log_lines, err,
                   last, executed, min_seen, min_params, last_improve, writes>>
    /\ UNCHANGED testVars

\* lines 196-235: os.makedirs(chkp_path, exist_ok=True), then the call of train_model
MainMakedirs ==
    /\ pc = "makedirs"
    /\ IF MakedirsRaises(config.chkp_path, fs, TRUE)
       THEN /\ pc' = "error"
            /\ err' = "FileNotFoundError"
            /\ UNCHANGED <<fs, model_path>>
       ELSE /\ fs' = fs \cup Prefixes(config.chkp_path)
            /\ model_path' = Join(config.chkp_path, config.chkp_name)
            /\ pc' = "train_model"
            /\ err' = err
    /\ UNCHANGED <<config, params, mode, looked_up, loaded, message, best_loss,
                   epochs_no_improve, early_stop, epoch, batch_i, best_pt, numbered,
                   log_lines, last, executed, min_seen, min_params, last_improve,
                   writes>>
    /\ UNCHANGED testVars

-----------------------------------------------------------------------------
(* train.py: train_model *)

InitialBestLossLow == Fin(1)
\* line 36: float('inf')
InitialBestLoss == Inf

\* lines 35-38
TrainModelInit ==
    /\ pc = "train_model"
    /\ mode' = "train"
    /\ best_loss' = InitialBestLoss
    /\ epochs_no_improve' = 0
    /\ early_stop' = FALSE
    /\ epoch' = 0
    /\ pc' = "epoch"
    /\ UNCHANGED <<config, model_path, fs, params, looked_up, loaded, message, batch_i,
                   best_pt, numbered, log_lines, err, last, executed, min_seen,
                   min_params, last_improve, writes>>
    /\ UNCHANGED testVars

\* lines 44-57: the head of the loop and the start of an epoch
EpochBegin ==
    /\ pc = "epoch"
    /\ IF epoch >= config.num_epochs \/ early_stop
       THEN /\ pc' = "done"
            /\ UNCHANGED <<mode, batch_i, executed>>
       ELSE /\ pc' = "train"
            /\ mode' = "train"
            /\ batch_i' = 0
            /\ executed' = executed + 1
    /\ UNCHANGED <<config, model_path, fs, params, looked_up, loaded, message, best_loss,
                   epochs_no_improve, early_stop, epoch, best_pt, numbered, log_lines,
                   err, last, min_seen, min_params, last_improve, writes>>
    /\ UNCHANGED testVars

\* lines 59-81: one training batch
TrainBatch ==
    /\ pc = "train"
    /\ batch_i < config.n_train
    /\ params' = Step(params)
    /\ batch_i' = batch_i + 1
    /\ UNCHANGED <<pc, config, model_path, fs, mode, looked_up, loaded, message,
                   best_loss, epochs_no_improve, early_stop, epoch, best_pt, numbered,
                   log_lines, err, last, executed, min_seen, min_params, last_improve,
                   writes>>
    /\ UNCHANGED testVars

\* lines 83-87: the training loader is exhausted
BeginValidation ==
    /\ pc = "train"
    /\ batch_i = config.n_train
    /\ mode' = "eval"
    /\ batch_i' = 0
    /\ pc' = "val"
    /\ UNCHANGED <<config, model_path, fs, params, looked_up, loaded, message, best_loss,
                   epochs_no_improve, early_stop, epoch, best_pt, numbered, log_lines,
                   err, last, executed, min_seen, min_params, last_improve, writes>>
    /\ UNCHANGED testVars

\* a validation batch that also steps the optimizer
ValBatchWithStep ==
    /\ pc = "val"
    /\ batch_i < config.n_val
    /\ batch_i' = batch_i + 1
    /\ params' = Step(params)
    /\ UNCHANGED <<pc, config, model_path, fs, mode, looked_up, loaded, message,
                   best_loss, epochs_no_improve, early_stop, epoch, best_pt, numbered,
                   log_lines, err, last, executed, min_seen, min_params, last_improve,
                   writes>>
    /\ UNCHANGED testVars

\* lines 88-100: one validation batch
ValBatch ==
    /\ pc = "val"
    /\ batch_i < config.n_val
    /\ batch_i' = batch_i + 1
    /\ UNCHANGED <<pc, config, model_path, fs, params, mode, looked_up, loaded, message,
                   best_loss, epochs_no_improve, early_stop, epoch, best_pt, numbered,
                   log_lines, err, last, executed, min_seen, min_params, last_improve,
                   writes>>
    /\ UNCHANGED testVars

\* line 114 as Python parses it: % binds tighter than +
SnapshotDue(e) == (e + 1 >= SnapshotFrom) /\ (e + (1 % SnapshotEvery) = 0)

ImprovesOrTies(loss, best) == FloatLe(loss, best)
ImprovesReversed(loss, best) == FloatLt(best, loss)
\* line 118
Improves(loss, best) == FloatLt(loss, best)

PatienceExceeded(count, patience) == count > patience
\* line 128
PatienceReached(count, patience) == count >= patience

\* history: the minimum of the losses observed, NaN never being one
NewMinimum(loss, seen) ==
    /\ loss # NaN
    /\ seen = NoLoss \/ FloatLt(loss, seen)

\* history: the loss is strictly below every loss observed before it, and below
\* the +inf the run starts from
BelowBestSoFar(loss, seen) == FloatLt(loss, IF seen = NoLoss THEN Inf ELSE seen)

\* lines 102-129: the end of an epoch, with the validation loss it measured
EpochEnd ==
    /\ pc = "val"
    /\ batch_i = config.n_val
    /\ \E avg_val_loss \in Losses :
        LET n == epoch + 1
            dir == Dirname(model_path)
            due == SnapshotDue(epoch)
            better == Improves(avg_val_loss, best_loss)
        IN  /\ log_lines' = log_lines + 1
            /\ last' = [n |-> n, loss |-> avg_val_loss]
            /\ IF NewMinimum(avg_val_loss, min_seen)
               THEN min_seen' = avg_val_loss /\ min_params' = params
               ELSE UNCHANGED <<min_seen, min_params>>
            /\ last_improve' = IF BelowBestSoFar(avg_val_loss, min_seen) THEN n
                                ELSE last_improve
            /\ IF due /\ ~Writable(dir, fs)
               THEN \* line 115: torch.save into a directory that is not there
                    /\ pc' = "error"
                    /\ err' = "SaveError"
                    /\ writes' = writes \cup {[kind |-> "numbered", dir_ok |-> FALSE]}
                    /\ UNCHANGED <<fs, best_loss, epochs_no_improve, early_stop, epoch,
                                   best_pt, numbered>>
               ELSE /\ numbered' = IF due THEN numbered \cup {n} ELSE numbered
                    /\ IF better
                       THEN /\ best_loss' = avg_val_loss
                            /\ IF ~PathExists(dir, fs) /\ MakedirsRaises(dir, fs, FALSE)
                               THEN \* line 122: os.makedirs('')
                                    /\ pc' = "error"
                                    /\ err' = "FileNotFoundError"
                                    /\ writes' = writes \cup
                                         (IF due THEN {[kind |-> "numbered", dir_ok |-> TRUE]}
                                                 ELSE {})
                                    /\ UNCHANGED <<fs, epochs_no_improve, early_stop,
                                                   epoch, best_pt>>
                               ELSE /\ fs' = IF PathExists(dir, fs) THEN fs
                                             ELSE fs \cup Prefixes(dir)
                                    /\ best_pt' = params
                                    /\ writes' = writes \cup
                                         {[kind |-> "best", dir_ok |-> TRUE]} \cup
                                         (IF due THEN {[kind |-> "numbered", dir_ok |-> TRUE]}
                                                 ELSE {})
                                    /\ epochs_no_improve' = 0
                                    /\ epoch' = epoch + 1
                                    /\ pc' = "epoch"
                                    /\ UNCHANGED <<early_stop, err>>
                       ELSE /\ epochs_no_improve' = epochs_no_improve + 1
                            /\ early_stop' =
                                 IF PatienceReached(epochs_no_improve + 1, config.patience)
                                 THEN TRUE ELSE early_stop
                            /\ writes' = writes \cup
                                 (IF due THEN {[kind |-> "numbered", dir_ok |-> TRUE]}
                                         ELSE {})
                            /\ epoch' = epoch + 1
                            /\ pc' = "epoch"
                            /\ UNCHANGED <<fs, best_loss, best_pt, err>>
    /\ UNCHANGED <<config, model_path, params, mode, looked_up, loaded, message, batch_i,
                   executed>>
    /\ UNCHANGED testVars

TrainNext ==
    \/ TransferLoad
    \/ MainMakedirs
    \/ TrainModelInit
    \/ EpochBegin
    \/ TrainBatch
    \/ BeginValidation
    \/ ValBatch
    \/ EpochEnd

-----------------------------------------------------------------------------
(* The collaborators of test.py: data provider, encoder, model, loader, sklearn *)

Alleles == {"DRB1_01", "DRB1_15"}
Epitopes == {"p1", "p2"}
\* a sample: (epitope, HLA, label)
Samples == [epi : Epitopes, hla : Alleles, label : {0, 1}]
SeqsUpTo(S, n) == UNION {[1..k -> S] : k \in 0..n}
Min(a, b) == IF a <= b THEN a ELSE b

Count(seq, hla) == Cardinality({i \in 1..Len(seq) : seq[i].hla = hla})
\* DataProvider.top_10_hlas: the most frequent alleles of the provider's samples
\* (no more than two alleles occur here, so the cut at ten never applies)
TopHlas(seq) ==
    LET present == {h \in Alleles : Count(seq, h) > 0}
        first == CHOOSE h \in present : \A g \in present :
                     Count(seq, h) > Count(seq, g) \/
                     (Count(seq, h) = Count(seq, g) /\ (h = g \/ h = "DRB1_01"))
    IN  IF present = {} THEN <<>>
        ELSE IF Cardinality(present) = 1 THEN <<first>>
        ELSE <<first, CHOOSE h \in present : h # first>>

\* DataProvider(**args) and DataProvider(**args, specific_hla=hla): the samples
Provider(seq, scope) ==
    IF scope = "all" THEN seq
    ELSE LET OfScope(smp) == smp.hla = scope IN SelectSeq(seq, OfScope)

\* the encoder's dataset item of a sample, without its label: batch[:-1]
Features(smp) == <<smp.epi, smp.hla>>
\* the model's output for one item
ModelOutput(x) == <<"score", x>>
PredictBatch(batch) == [i \in 1..Len(batch) |-> ModelOutput(Features(batch[i]))]

RECURSIVE Concatenate(_)
\* np.concatenate over a non-empty list of per-batch arrays
Concatenate(list) ==
    IF list = <<>> THEN <<>> ELSE Head(list) \o Concatenate(Tail(list))

\* DataLoader(dataset, batch_size=b, shuffle=False): the batch that starts after
\* `offset` samples
NextBatch(seq, offset, b) == SubSeq(seq, offset + 1, Min(offset + b, Len(seq)))

CollectLast(acc, y_batch) == <<y_batch>>
\* test.py line 31: all_preds.append(y_pred)
CollectPreds(acc, y_batch) == Append(acc, y_batch)

\* test.py lines 36, 47
BatchSize(t, n) == IF t.has_batch_size THEN t.batch_size ELSE n

\* test.py lines 39, 50: sample[-1] of every sample of the provider
Labels(seq) == [i \in 1..Len(seq) |-> seq[i].label]
Positives(lab) == Cardinality({i \in 1..Len(lab) : lab[i] = 1})
Negatives(lab) == Cardinality({i \in 1..Len(lab) : lab[i] = 0})
SingleClass(lab) == Positives(lab) = 0 \/ Negatives(lab) = 0

\* test.py lines 41-42: sklearn's roc_curve and auc.  With one class only,
\* roc_curve warns and returns a NaN rate, and auc returns NaN; nothing is raised.
RocAuc(lab) ==
    IF SingleClass(lab) THEN {[auc |-> "nan", warned |-> TRUE]}
    ELSE {[auc |-> "number", warned |-> FALSE]}

\* test.py lines 52-53: sklearn's precision_recall_curve and auc.  With positives
\* only the curve is defined (precision 1 throughout) and nothing is said; with
\* no positive, recall is 0/0: NaN or, in later releases, set to one, with a
\* warning either way.
PrAuc(lab) ==
    IF Positives(lab) = 0
    THEN {[auc |-> "nan", warned |-> TRUE], [auc |-> "number", warned |-> TRUE]}
    ELSE {[auc |-> "number", warned |-> FALSE]}

-----------------------------------------------------------------------------
(* test.py: main, calculate_roc_auc, calculate_pr_auc, test_model *)

CallsFor(kind, scopes) == [i \in 1..Len(scopes) |-> [kind |-> kind, scope |-> scopes[i]]]

\* lines 82-83, 117, 120, 138: the calls main makes, in order
TestMain ==
    /\ tpc = "main"
    /\ calls' = <<[kind |-> "roc", scope |-> "all"], [kind |-> "pr", scope |-> "all"]>>
                  \o CallsFor("roc", TopHlas(samples))
                  \o CallsFor("pr", TopHlas(samples))
    /\ tpc' = "call"
    /\ UNCHANGED <<samples, tconfig, dp, y, consumed, all_preds, y_pred, plotted, saved,
                   terr>>
    /\ UNCHANGED trainVars

\* lines 35-39 (46-50), 24-25: the loader, the label vector, the start of test_model
CalculateBegin ==
    /\ tpc = "call"
    /\ calls # <<>>
    /\ LET provider == Provider(samples, Head(calls).scope)
       IN  /\ dp' = provider
           /\ IF BatchSize(tconfig, Len(provider)) <= 0
              THEN \* DataLoader refuses a batch size that is not positive
                   /\ tpc' = "error"
                   /\ terr' = "ValueError"
                   /\ UNCHANGED <<y, consumed, all_preds>>
              ELSE /\ y' = Labels(provider)
                   /\ consumed' = 0
                   /\ all_preds' = <<>>
                   /\ tpc' = "test_model"
                   /\ terr' = terr
    /\ UNCHANGED <<samples, tconfig, calls, y_pred, plotted, saved>>
    /\ UNCHANGED trainVars

\* lines 27-31: one batch of test_model
TestBatch ==
    /\ tpc = "test_model"
    /\ consumed < Len(dp)
    /\ LET batch == NextBatch(dp, consumed, BatchSize(tconfig, Len(dp)))
       IN  /\ consumed' = consumed + Len(batch)
           /\ all_preds' = CollectPreds(all_preds, PredictBatch(batch))
    /\ UNCHANGED <<tpc, samples, tconfig, calls, dp, y, y_pred, plotted, saved, terr>>
    /\ UNCHANGED trainVars

\* line 32: np.concatenate(all_preds), which raises on an empty list
TestModelReturn ==
    /\ tpc = "test_model"
    /\ consumed >= Len(dp)
    /\ IF all_preds = <<>>
       THEN /\ tpc' = "error"
            /\ terr' = "ValueError"
            /\ UNCHANGED y_pred
       ELSE /\ y_pred' = Concatenate(all_preds)
            /\ tpc' = "curve"
            /\ terr' = terr
    /\ UNCHANGED <<samples, tconfig, calls, dp, y, consumed, all_preds, plotted, saved>>
    /\ UNCHANGED trainVars

\* the figure a curve is drawn in
Figure(call) == IF call.scope = "all" THEN call.kind ELSE call.kind \o "_hla"

\* lines 41-43 (52-54) and the caller's plt.plot; plt.savefig once the figure
\* has its last curve (lines 84-96, 101-112, 120-134, 138-152)
CurveAndPlot ==
    /\ tpc = "curve"
    /\ LET call == Head(calls)
           rest == Tail(calls)
           complete == rest = <<>> \/ Figure(Head(rest)) # Figure(call)
       IN  /\ \E res \in (IF call.kind = "roc" THEN RocAuc(y) ELSE PrAuc(y)) :
                plotted' = plotted \cup
                    {[kind |-> call.kind, scope |-> call.scope, auc |-> res.auc,
                      warned |-> res.warned, single_class |-> SingleClass(y),
                      n |-> Len(y)]}
           /\ saved' = IF complete THEN saved \cup {Figure(call)} ELSE saved
           /\ calls' = rest
           /\ tpc' = IF rest = <<>> THEN "done" ELSE "call"
    /\ UNCHANGED <<samples, tconfig, dp, y, consumed, all_preds, y_pred, terr>>
    /\ UNCHANGED trainVars

TestNext ==
    \/ TestMain
    \/ CalculateBegin
    \/ TestBatch
    \/ TestModelReturn
    \/ CurveAndPlot

-----------------------------------------------------------------------------
(* Initial states *)

TestIdle ==
    /\ tpc = "idle"
    /\ samples = <<>>
    /\ tconfig = [has_batch_size |-> FALSE, batch_size |-> 0]
    /\ calls = <<>>
    /\ dp = <<>>
    /\ y = <<>>
    /\ consumed = 0
    /\ all_preds = <<>>
    /\ y_pred = <<>>
    /\ plotted = {}
    /\ saved = {}
    /\ terr = "none"

\* the state of a training process before its first step
TrainStart ==
    /\ model_path = <<>>
    /\ params = Fresh
    /\ mode = "train"
    /\ looked_up = FALSE
    /\ loaded = FALSE
    /\ message = "none"
    /\ best_loss = Inf
    /\ epochs_no_improve = 0
    /\ early_stop = FALSE
    /\ epoch = 0
    /\ batch_i = 0
    /\ best_pt = NoFile
    /\ numbered = {}
    /\ log_lines = 0
    /\ err = "none"
    /\ last = NoEpoch
    /\ executed = 0
    /\ min_seen = NoLoss
    /\ min_params = NoFile
    /\ last_improve = 0
    /\ writes = {}

Patiences == (0..MaxPatience) \cup {DemoPatience}

\* train.py main under the demo configuration's paths, over the hyperparameters
\* of the training loop
Init ==
    /\ pc = "main"
    /\ config \in [entry : {"main"},
                   transfer : {"absent"},
                   ckpt_exists : {FALSE},
                   chkp_path : {<<"models">>},
                   chkp_name : {<<"demo_chai2_sp">>},
                   num_epochs : 1..MaxEpochs,
                   patience : Patiences,
                   n_train : 1..MaxBatches,
                   n_val : 1..MaxBatches]
    /\ fs = {}
    /\ TrainStart
    /\ TestIdle

Spec == Init /\ [][TrainNext]_vars

\* train.py main under the demo configuration: 50 epochs, patience 100
InitDemo ==
    /\ pc = "main"
    /\ config \in [entry : {"main"},
                   transfer : {"absent"},
                   ckpt_exists : {FALSE},
                   chkp_path : {<<"models">>},
                   chkp_name : {<<"demo_chai2_sp">>},
                   num_epochs : {DemoEpochs},
                   patience : {DemoPatience},
                   n_train : 1..MaxBatches,
                   n_val : 1..MaxBatches]
    /\ fs = {}
    /\ TrainStart
    /\ TestIdle

SpecDemo == InitDemo /\ [][TrainNext]_vars

\* train.py main over the transfer setting, the checkpoint directory and name and
\* the directories that exist; or train_model called with a model_path of its own
InitMain ==
    /\ \/ /\ pc = "main"
          /\ config \in [entry : {"main"},
                         transfer : {"absent", "false", "true"},
                         ckpt_exists : BOOLEAN,
                         chkp_path : {<<>>, <<"models">>, <<"runs", "models">>},
                         chkp_name : {<<"demo">>, <<"sub", "demo">>},
                         num_epochs : 1..MaxMainEpochs,
                         patience : Patiences,
                         n_train : {1},
                         n_val : {1}]
          /\ model_path = <<>>
       \/ /\ pc = "train_model"
          /\ config \in [entry : {"train_model"},
                         transfer : {"absent"},
                         ckpt_exists : {FALSE},
                         chkp_path : {<<>>},
                         chkp_name : {<<>>},
                         num_epochs : 1..MaxMainEpochs,
                         patience : Patiences,
                         n_train : {1},
                         n_val : {1}]
          /\ model_path \in {<<"demo">>, <<"models", "demo">>, <<"runs", "models", "demo">>}
    /\ fs \in {{}, {<<"models">>}}
    /\ params = Fresh
    /\ mode = "train"
    /\ looked_up = FALSE
    /\ loaded = FALSE
    /\ message = "none"
    /\ best_loss = Inf
    /\ epochs_no_improve = 0
    /\ early_stop = FALSE
    /\ epoch = 0
    /\ batch_i = 0
    /\ best_pt = NoFile
    /\ numbered = {}
    /\ log_lines = 0
    /\ err = "none"
    /\ last = NoEpoch
    /\ executed = 0
    /\ min_seen = NoLoss
    /\ min_params = NoFile
    /\ last_improve = 0
    /\ writes = {}
    /\ TestIdle

SpecMain == InitMain /\ [][TrainNext]_vars

TrainIdle ==
    /\ pc = "idle"
    /\ config = [entry |-> "test", transfer |-> "absent", ckpt_exists |-> TRUE,
                 chkp_path |-> <<"models">>, chkp_name |-> <<"demo_chai2_sp">>,
                 num_epochs |-> 0, patience |-> 0, n_train |-> 0, n_val |-> 0]
    /\ fs = {<<"models">>}
    /\ TrainStart

\* test.py main, its model loaded, over the test samples and Test.batch_size
InitTest ==
    /\ tpc = "main"
    /\ samples \in SeqsUpTo(Samples, MaxSamples)
    /\ tconfig \in {[has_batch_size |-> FALSE, batch_size |-> 0]} \cup
                   {[has_batch_size |-> TRUE, batch_size |-> b] : b \in 1..MaxBatchSize}
    /\ calls = <<>>
    /\ dp = <<>>
    /\ y = <<>>
    /\ consumed = 0
    /\ all_preds = <<>>
    /\ y_pred = <<>>
    /\ plotted = {}
    /\ saved = {}
    /\ terr = "none"
    /\ TrainIdle

SpecTest == InitTest /\ [][TestNext]_vars

\* either entry point: a training run (train.py) or an evaluation (test.py)
SpecBoth == (Init \/ InitMain \/ InitTest) /\ [][TrainNext \/ TestNext]_vars

-----------------------------------------------------------------------------
(* Properties of train_model *)

Max(a, b) == IF a >= b THEN a ELSE b
\* train_model is between two epochs, or has returned
BetweenEpochs == pc \in {"epoch", "done"} /\ last.n >= 1

\* C1 as stated: for every patience P, no epoch is entered more than P epochs
\* after the last epoch whose validation loss improved on the best so far.
C1_AsStated ==
    last_improve >= 1 => executed <= last_improve + config.patience

\* C1: no epoch is entered more than max(P, 1) epochs after the last improving
\* epoch (or after the start of the run, when no epoch has improved): the flag
\* is only raised by an epoch that failed to improve, so with P <= 0 one such
\* epoch is still executed.
C1_HaltsWithinPatience ==
    executed <= last_improve + Max(config.patience, 1)

\* C1 witness: a run stopped early, P >= 1 epochs after its last improvement
C1_Witness ==
    /\ pc = "done"
    /\ early_stop
    /\ config.patience >= 1
    /\ last_improve >= 1
    /\ executed = last_improve + config.patience
    /\ executed < config.num_epochs

\* C2 as stated: after any executed epoch the best snapshot holds the parameters
\* of the epoch with the minimum validation loss observed, and best_loss is that
\* minimum.
C2_AsStated ==
    BetweenEpochs => (best_pt = min_params /\ best_loss = min_seen)

\* C2: once some epoch's validation loss was a number below +inf, the best
\* snapshot holds the parameters at the end of the first epoch that attained the
\* least validation loss observed (NaN never counting), and best_loss is that
\* loss; until then there is no best snapshot and best_loss is +inf.
C2_BestIsMinimum ==
    IF min_seen \in {NoLoss, Inf}
    THEN best_pt = NoFile /\ best_loss = Inf
    ELSE best_pt = min_params /\ best_loss = min_seen

\* C2 witness: the last epoch tied with the minimum, which an earlier epoch set
C2_Witness ==
    /\ BetweenEpochs
    /\ last.n >= 3
    /\ last.loss = min_seen
    /\ best_pt = min_params
    /\ best_pt # params
    /\ best_pt # NoFile

\* C3 as stated: the numbered snapshot of an executed epoch n exists if and only
\* if n >= 30 and n is a multiple of 5.
C3_AsStated ==
    \A n \in 1..last.n :
        n \in numbered <=> (n >= SnapshotFrom /\ n % SnapshotEvery = 0)

\* an epoch has just ended (one more log line)
EpochEnded == last'.n = last.n + 1
StrictlyBelow(loss, best) == FloatLt(loss, best)

\* the update of the end of an epoch, as C4 states it
C4_Update ==
    EpochEnded =>
        IF StrictlyBelow(last'.loss, best_loss)
        THEN /\ best_pt' = params
             /\ best_loss' = last'.loss
             /\ epochs_no_improve' = 0
             /\ early_stop' = FALSE
        ELSE /\ best_pt' = best_pt
             /\ best_loss' = best_loss
             /\ epochs_no_improve' = epochs_no_improve + 1
             /\ early_stop' = (epochs_no_improve' >= config.patience)

\* C4 as stated: the flag is set exactly when the count of epochs without
\* improvement has reached patience.
C4_AsStated ==
    BetweenEpochs => (early_stop <=> epochs_no_improve >= config.patience)

\* C4: an epoch whose validation loss is strictly below best_loss overwrites the
\* best snapshot and resets the count; any other (a tie, NaN) leaves the snapshot
\* and adds one; the count is the number of epochs since the last improvement;
\* and the flag is set exactly when an epoch without improvement raises the
\* count to patience or more (for patience >= 1: exactly when the count has
\* reached patience).
C4_CounterAndFlag ==
    /\ [][C4_Update]_vars
    /\ [](BetweenEpochs => epochs_no_improve = last.n - last_improve)
    /\ [](BetweenEpochs /\ config.patience >= 1 =>
            (early_stop <=> epochs_no_improve >= config.patience))

\* C4 witness: a tie with best_loss counted as no improvement and raised the flag
C4_Witness ==
    /\ BetweenEpochs
    /\ last.loss = best_loss
    /\ last.loss # Inf
    /\ last_improve < last.n
    /\ epochs_no_improve = config.patience
    /\ early_stop

\* C5 as stated: the first executed epoch always writes the best snapshot,
\* whatever validation loss it yields.
C5_AsStated ==
    last.n >= 1 => best_pt # NoFile

\* C5: the first executed epoch writes the best snapshot exactly when its
\* validation loss is a number below +inf (not NaN, not +inf); a run writes one
\* log line per epoch it executed, at most num_epochs, and exactly one when
\* num_epochs = 1.
C5_FirstEpochAndLog ==
    /\ (BetweenEpochs /\ last.n = 1) =>
           /\ best_pt # NoFile <=> StrictlyBelow(last.loss, Inf)
           /\ best_pt # NoFile => best_pt = params
    /\ pc = "done" =>
           /\ log_lines = executed
           /\ executed <= config.num_epochs
           /\ config.num_epochs = 1 => log_lines = 1

\* C5 witness: a one-epoch run that ended with one log line and a best snapshot
C5_Witness ==
    /\ pc = "done"
    /\ config.num_epochs = 1
    /\ log_lines = 1
    /\ best_pt = params
    /\ last.loss \in {Fin(n) : n \in 1..MaxLoss}

-----------------------------------------------------------------------------
(* Properties of train.py main *)

\* C6: in main, past the transfer-learning step: with transfer enabled and no
\* checkpoint file, the file was looked up, nothing was loaded, no error was
\* raised by the step, the message was printed and the model holds its freshly
\* constructed parameters when train_model starts, as in a run without transfer;
\* with transfer false or absent, no checkpoint was looked up or loaded.
C6_TransferLoad ==
    (config.entry = "main" /\ pc # "main") =>
        /\ (config.transfer = "true" /\ ~config.ckpt_exists) =>
               /\ looked_up /\ ~loaded
               /\ message = "scratch"
               /\ params.base = "fresh"
               /\ pc = "makedirs" => err = "none"
               /\ pc = "train_model" => params = Fresh
        /\ config.transfer \in {"absent", "false"} =>
               /\ ~looked_up /\ ~loaded
               /\ message = "none"
               /\ params.base = "fresh"
               /\ pc = "train_model" => params = Fresh

\* C6 witness: transfer is enabled, the checkpoint is missing, train_model starts
C6_Witness ==
    /\ pc = "train_model"
    /\ config.transfer = "true"
    /\ ~config.ckpt_exists
    /\ message = "scratch"
    /\ params = Fresh
    /\ err = "none"

\* C10 as stated: in every run, every snapshot write finds the directory of
\* model_path in place, and no directory creation raises an error.
C10_AsStated ==
    /\ \A w \in writes : w.dir_ok
    /\ err = "none"

-----------------------------------------------------------------------------
(* Properties of test.py *)

\* C7 as stated: a curve over labels of one class only is flagged, never drawn
\* with a number for its area and no warning.
C7_AsStated ==
    \A c \in plotted : c.single_class => (c.auc = "nan" \/ c.warned)

\* a calculate_* call is past its label extraction
InCall == tpc \in {"test_model", "curve"}

\* C8: in every call the label vector has one entry per sample of the provider
\* passed in, in order, and the vector test_model returns has the same length,
\* entry i being the model's output for sample i.
C8_VectorsMatchProvider ==
    /\ InCall =>
          /\ Len(y) = Len(dp)
          /\ \A i \in 1..Len(dp) : y[i] = dp[i].label
    /\ tpc = "curve" =>
          /\ Len(y_pred) = Len(dp)
          /\ Len(y_pred) = Len(y)
          /\ \A i \in 1..Len(dp) : y_pred[i] = ModelOutput(Features(dp[i]))

\* C8 witness: a provider evaluated in more than one batch, the last one short
C8_Witness ==
    /\ tpc = "curve"
    /\ Len(dp) >= 3
    /\ Len(all_preds) >= 2
    /\ Len(all_preds[Len(all_preds)]) < tconfig.batch_size
    /\ Len(y_pred) = Len(dp)
    /\ \E i, j \in 1..Len(dp) : y_pred[i] # y_pred[j]

\* C8 holds of an allele-filtered provider evaluated in more than one batch
C8_WitnessAllele ==
    /\ tpc = "curve"
    /\ Head(calls).scope # "all"
    /\ Len(dp) < Len(samples)
    /\ Len(all_preds) >= 2

\* C8 also holds with Test.batch_size absent: one batch of the whole provider
C8_WitnessDefaultBatch ==
    /\ tpc = "curve"
    /\ ~tconfig.has_batch_size
    /\ Len(dp) >= 2
    /\ Len(all_preds) = 1

-----------------------------------------------------------------------------
(* Properties of the model's parameters *)

\* a step of train_model or of test.py (not of main's transfer-learning load)
OutsideTransferLoad == pc # "main"
\* the step is one training batch: optimizer.step() in the training phase
IsTrainingStep ==
    /\ pc = "train" /\ pc' = "train"
    /\ mode = "train"
    /\ batch_i' = batch_i + 1
    /\ params' = Step(params)
\* optimizer steps taken when `done` epochs are complete
StepsAfter(done) == done * config.n_train

\* C11: in train_model and in test.py the parameters change only by the
\* optimizer step of a training batch: validation batches and test_model leave
\* them as they are.  In an epoch the training batches all come first: while
\* training, the parameters have taken the steps of the epochs before plus the
\* batches of this one; while validating and at the end of the epoch, they are
\* those of the epoch's last training step, and a best snapshot written by that
\* epoch holds exactly them.
C11_ParamsOnlyByTraining ==
    /\ [][(OutsideTransferLoad /\ params' # params) => IsTrainingStep]_vars
    /\ [][(tpc \in {"call", "test_model", "curve"}) => params' = params]_vars
    /\ [](pc = "train" =>
            /\ mode = "train"
            /\ params.steps = StepsAfter(executed - 1) + batch_i)
    /\ [](pc = "val" =>
            /\ mode = "eval"
            /\ params.steps = StepsAfter(executed))
    /\ [](BetweenEpochs =>
            /\ params.steps = StepsAfter(last.n)
            /\ last_improve = last.n =>
                  best_pt = params /\ best_pt.steps = StepsAfter(last.n))

\* C11 witness: a later epoch of several training and validation batches wrote
\* the best snapshot after its validation phase
C11_Witness ==
    /\ BetweenEpochs
    /\ last.n >= 2
    /\ config.n_train >= 2
    /\ config.n_val >= 2
    /\ last_improve = last.n
    /\ best_pt = params
    /\ best_pt.steps = StepsAfter(last.n)

\* C11 holds of test_model: it has returned its predictions over several batches
C11_WitnessTestModel ==
    /\ tpc = "curve"
    /\ Len(all_preds) >= 2
    /\ params = Fresh
====
